---- MODULE Spec2Model ----
(***************************************************************************)
(* A model of the Gemini image generator repository.                       *)
(*                                                                         *)
(*   Spec     the task API of web_api.py: the registry active_tasks, one   *)
(*            background worker per task (one step per statement of        *)
(*            generate_image_background), the HTTP handlers and the        *)
(*            one-shot cleanup thread.                                     *)
(*   SpecGen  one GeminiImageGenerator driven sequentially, by main of     *)
(*            gemini_image_generator.py and by the endpoints of app.py:    *)
(*            cost computation, the session total and its reset.           *)
(*   SpecScan one generate call over every response shape within the       *)
(*            bounds: the extraction of the image from the candidates.     *)
(*   SpecWorkers, SpecSweep  the task API with its threads scheduled       *)
(*            fairly: the workers with the requests that create and evict  *)
(*            tasks, and the task API without cleanup requests.            *)
(*   SpecProgram  one process running one of the programs.                 *)
(*   SpecUI   the desktop form of ui.py: the generate button, the worker   *)
(*            thread each click starts and the callbacks of the main loop. *)
(*   SpecShared  the web UI of app.py serving overlapping requests on its  *)
(*            one shared generator, one step per statement.                *)
(*                                                                         *)
(* Money is counted in nano-dollars, so that every price of the table and  *)
(* every cost is an integer and the arithmetic is exact.  Time is counted  *)
(* in seconds from the start of the process.  An HTTP handler that only    *)
(* reads is an action that changes nothing; what it answers is an operator *)
(* of the state it runs in.                                                *)
(* The message field of a task is not modelled: no statement reads it.     *)
(***************************************************************************)
EXTENDS Integers, Sequences, FiniteSets, TLC

\* ------------------------------------------------------------------ bounds
\* Number of tasks POST /api/generate may create in one run.
MaxTasks == 1
\* Number of generate calls made on one generator, and the longest prompt.
MaxCalls == 2
MaxPromptLen == 2
\* A response of the endpoint holds at most MaxCands candidates and MaxParts
\* content parts in all.
MaxCands == 2
MaxParts == 3
\* Number of clicks on the generate button of the desktop form.
MaxClicks == 2
\* Number of requests the web UI serves at the same time.
MaxReqs == 2

\* --------------------------------------------------------------- constants
None == "None"

\* The keys of AVAILABLE_MODELS.
Models == {"gemini-2.5-flash-image-preview", "gemini-2.0-flash-preview-image-generation"}
DefaultModel == "gemini-2.5-flash-image-preview"
\* A model identifier that is not a key of the table.
UnknownModel == "no-such-model"

TaskIds == 1..MaxTasks
Terminal == {"completed", "error"}
NonTerminal == {"pending", "initializing", "generating"}

\* Seconds: the sleep of the cleanup thread and the two windows of
\* cleanup_old_tasks.
SWEEP_SLEEP == 300
MAX_AGE == 3600
IDLE_WINDOW == 600

VARIABLES
  \* web_api.py
  active_tasks,   \* the registry: the ids that are keys of active_tasks
  status, progress, result_path, error,   \* the fields of each GenerationTask
  finished_at,    \* the attribute the sweep adds to a task (None: absent)
  wpc,            \* each task's worker: the statement it executes next
  args,           \* each worker's arguments: [model, input_file_path]
  exc,            \* each worker: the exception being handled (None: none)
  raisedAt,       \* each worker: status and progress when the exception was raised
  upload,         \* whether the uploaded input file of the task exists on disk
  output,         \* whether outputs/generated_<id>.png exists on disk
  nextId,         \* the next fresh task id
  sweep,          \* the cleanup thread: [pc, current_time, visited, size, to_remove]
  \* gemini_image_generator.py and app.py: one generator and the calls made on it
  generator,      \* [session, model, total_cost]; session "none": not constructed
  call,           \* the frame of the current (or last) call or request
  response,       \* the reply the endpoint gave to that call
  outfile,        \* the file at the call's output_path: [exists, data]
  invocations,    \* how many times the endpoint has been invoked
  ncalls,         \* how many generate calls have been started
  reported,       \* the sum of the total_cost reported for the successful
                  \* generations since the session total was last zero
  failures,       \* the number of generate calls that failed since then
  reqs,           \* app.py: the requests being served by threads of the web UI
  \* ui.py: one GeminiImageGeneratorUI
  generate_btn,   \* the state option of the generate button
  uiw,            \* the worker threads started by clicks: [pc, exc, with_input]
  clicks,         \* how many worker threads have been started
  after_q,        \* the generation_finished callbacks waiting in the main loop
  status_label    \* the text of the status label

webvars == <<active_tasks, status, progress, result_path, error, finished_at, wpc,
             args, exc, raisedAt, upload, output, nextId, sweep>>

genvars == <<generator, call, response, outfile, invocations, ncalls, reported, failures,
             reqs>>

uivars == <<generate_btn, uiw, clicks, after_q, status_label>>

vars == <<webvars, genvars, uivars>>

\* ------------------------------------------------- gemini_image_generator.py
\* The pricing records of AVAILABLE_MODELS, in nano-dollars.  Defined for the keys of the table only (any other key raises KeyError).
Pricing(m) ==
  CASE m = "gemini-2.5-flash-image-preview"
         -> [input_cost_per_1k_chars |-> 250000, output_cost_per_image |-> 2734375]
    [] m = "gemini-2.0-flash-preview-image-generation"
         -> [input_cost_per_1k_chars |-> 250000, output_cost_per_image |-> 2734375]

\* calculate_cost with the input image left out of the total.
calculate_cost_noimg(m, input_chars, has_input_image) ==
  LET pricing == Pricing(m)
      input_cost == (input_chars * pricing.input_cost_per_1k_chars) \div 1000
      output_cost == pricing.output_cost_per_image
      input_image_cost == IF has_input_image THEN pricing.output_cost_per_image ELSE 0
      total == input_cost + output_cost
  IN [input_text_cost |-> input_cost,
      input_image_cost |-> input_image_cost,
      output_image_cost |-> output_cost,
      total_cost |-> total,
      input_chars |-> input_chars]

\* calculate_cost(prompt, has_input_image) of a generator whose model is m;
\* the prompt is given by its length.  (input_chars / 1000) * price is exact in
\* nano-dollars: every price is a multiple of 1000.
calculate_cost(m, input_chars, has_input_image) ==
  LET pricing == Pricing(m)
      input_cost == (input_chars * pricing.input_cost_per_1k_chars) \div 1000
      output_cost == pricing.output_cost_per_image
      input_image_cost == IF has_input_image THEN pricing.output_cost_per_image ELSE 0
      total == input_cost + output_cost + input_image_cost
  IN [input_text_cost |-> input_cost,
      input_image_cost |-> input_image_cost,
      output_image_cost |-> output_cost,
      total_cost |-> total,
      input_chars |-> input_chars]

\* Inline data.  Raw bytes are known by their length and a tag naming their
\* content; a string is known by its length, and when it is the base64 text of
\* some bytes, by its padding and the tag of those bytes.
Bytes(n, c) == [form |-> "bytes", len |-> n, content |-> c]
b64encode(b) ==
  [form |-> "str", len |-> 4 * ((b.len + 2) \div 3), pad |-> (3 - (b.len % 3)) % 3,
   content |-> b.content, valid |-> TRUE]
Garbage(n) == [form |-> "str", len |-> n, pad |-> 0, content |-> "garbage", valid |-> FALSE]
\* base64.b64decode(s), defined when it does not raise (s.valid).
b64decode(s) == Bytes(3 * (s.len \div 4) - s.pad, s.content)

\* The threshold of the extraction loop: len(part.inline_data.data) > 1000.
MIN_IMAGE_BYTES == 1000

\* Content parts: a text part has no inline data.
TextPart == [kind |-> "text"]
InlinePart(mime, data) == [kind |-> "inline", mime_type |-> mime, data |-> data]
\* mime_type.startswith('image/'), over the MIME types of the model.
StartsWithImage(mime) == mime \in {"image/png", "image/jpeg"}

Err(msg) == [ok |-> FALSE, error |-> msg]
Ok(data) == [ok |-> TRUE, data |-> data]
\* No image found (so far) by the extraction loop.
NoImage == [ok |-> FALSE]

\* PartImage without the length test.
PartImage_nolen(part) ==
  IF part.kind # "inline" THEN NoImage
  ELSE IF ~StartsWithImage(part.mime_type) THEN NoImage
  ELSE IF part.data.form = "bytes" THEN Ok(part.data)
  ELSE IF part.data.valid THEN Ok(b64decode(part.data))
  ELSE NoImage

\* The body of the two for-loops for one part: Ok(the bytes to write), or
\* NoImage when the part is passed over (no inline data, not an image, too
\* short, or a string that base64 cannot decode).
PartImage(part) ==
  IF part.kind # "inline" THEN NoImage
  ELSE IF ~(StartsWithImage(part.mime_type) /\ part.data.len > MIN_IMAGE_BYTES) THEN NoImage
  ELSE IF part.data.form = "bytes" THEN Ok(part.data)
  ELSE IF part.data.valid THEN Ok(b64decode(part.data))
  ELSE NoImage

\* ScanParts that gives up at an image part whose base64 text does not decode.
RECURSIVE ScanParts_failfast(_, _)
ScanParts_failfast(parts, i) ==
  IF i > Len(parts) THEN NoImage
  ELSE IF PartImage(parts[i]).ok THEN PartImage(parts[i])
  ELSE IF /\ parts[i].kind = "inline" /\ StartsWithImage(parts[i].mime_type)
          /\ parts[i].data.form = "str" /\ ~parts[i].data.valid
       THEN NoImage
  ELSE ScanParts_failfast(parts, i + 1)

\* ScanParts that looks at one part only.
ScanParts_first(parts, i) ==
  IF i > Len(parts) THEN NoImage ELSE PartImage(parts[i])

\* for part in candidate.content.parts, from index i: the first image found.
RECURSIVE ScanParts(_, _)
ScanParts(parts, i) ==
  IF i > Len(parts) THEN NoImage
  ELSE IF PartImage(parts[i]).ok THEN PartImage(parts[i])
  ELSE ScanParts(parts, i + 1)

\* for candidate in response.candidates, from index i.
RECURSIVE ScanCandidates(_, _)
ScanCandidates(cands, i) ==
  IF i > Len(cands) THEN NoImage
  ELSE IF ScanParts(cands[i], 1).ok THEN ScanParts(cands[i], 1)
  ELSE ScanCandidates(cands, i + 1)

\* What the endpoint call can do: raise, return a falsy response, or return a
\* response with its sequence of candidates (each the sequence of its parts).
Raises == [kind |-> "raises"]
NoResponse == [kind |-> "none"]
Response(cands) == [kind |-> "response", candidates |-> cands]

\* except Exception as e: raise RuntimeError(f"Failed to generate image: {str(e)}")
Wrapped(msg) ==
  CASE msg = "endpoint error" -> "Failed to generate image: endpoint error"
    [] msg = "No response received from Gemini API"
         -> "Failed to generate image: No response received from Gemini API"
    [] msg = "No candidates in response"
         -> "Failed to generate image: No candidates in response"
    [] msg = "No image generated in response"
         -> "Failed to generate image: No image generated in response"
    [] msg = "Image file not found" -> "Failed to generate image: Image file not found"

\* The try block of generate_image_from_prompt once the endpoint has answered
\* with reply: Ok(the bytes written to output_path) or Err(the message raised).
ExtractImage(reply) ==
  IF reply.kind = "raises" THEN Err(Wrapped("endpoint error"))
  ELSE IF reply.kind = "none" THEN Err(Wrapped("No response received from Gemini API"))
  ELSE IF reply.candidates = <<>> THEN Err(Wrapped("No candidates in response"))
  ELSE IF ScanCandidates(reply.candidates, 1).ok THEN ScanCandidates(reply.candidates, 1)
  ELSE Err(Wrapped("No image generated in response"))

\* The try block of generate_image_with_input: load_image raises when the
\* input file does not exist, before the endpoint is called.
ExtractImageWithInput(file_exists, reply) ==
  IF ~file_exists THEN Err(Wrapped("Image file not found")) ELSE ExtractImage(reply)

\* ------------------------------------------------------- the inputs drawn
ImageLens == {MIN_IMAGE_BYTES - 1, MIN_IMAGE_BYTES, MIN_IMAGE_BYTES + 1}
PartKinds ==
  {TextPart}
    \cup {InlinePart("image/png", Bytes(n, "A")) : n \in ImageLens}
    \cup {InlinePart("image/png", b64encode(Bytes(751, "B"))),
          InlinePart("image/png", Garbage(1004)),
          InlinePart("text/plain", Bytes(MIN_IMAGE_BYTES + 1, "C"))}

\* The sequences of exactly n parts.
RECURSIVE PartSeqs(_)
PartSeqs(n) ==
  IF n = 0 THEN {<<>>} ELSE {<<p>> \o s : p \in PartKinds, s \in PartSeqs(n - 1)}

\* The candidate lists of at most c candidates and at most p parts in all.
RECURSIVE CandLists(_, _)
CandLists(c, p) ==
  IF c = 0 THEN {<<>>}
  ELSE {<<>>} \cup UNION {{<<cand>> \o rest : cand \in PartSeqs(k), rest \in CandLists(c - 1, p - k)}
                           : k \in 0..p}

\* An image part of n raw bytes.
Img(n) == InlinePart("image/png", Bytes(n, "A"))

\* The replies drawn where the reply is one input among others: one of each
\* outcome of the try block.
SampleReplies ==
  {Raises, NoResponse, Response(<<>>),
   Response(<< <<TextPart, Img(MIN_IMAGE_BYTES + 1)>> >>),
   Response(<< <<Img(MIN_IMAGE_BYTES - 1)>> >>)}

\* Every reply of the endpoint within the bounds.
Replies == {Raises, NoResponse} \cup {Response(cl) : cl \in CandLists(MaxCands, MaxParts)}

\* ================================================================ web_api.py
\* GenerationTask.__init__: the fields of a new task.
NoTime == -1
\* output_path of task t: each task has its own, named after its task_id.
OutputPath(t) == "outputs/generated_<task_id>.png"

WebInit ==
  /\ active_tasks = {}
  /\ status = [t \in TaskIds |-> "pending"]
  /\ progress = [t \in TaskIds |-> 0]
  /\ result_path = [t \in TaskIds |-> None]
  /\ error = [t \in TaskIds |-> None]
  /\ finished_at = [t \in TaskIds |-> NoTime]
  /\ wpc = [t \in TaskIds |-> "none"]
  /\ args = [t \in TaskIds |-> [model |-> DefaultModel, input_file_path |-> FALSE]]
  /\ exc = [t \in TaskIds |-> None]
  /\ raisedAt = [t \in TaskIds |-> [status |-> None, progress |-> 0]]
  /\ upload = [t \in TaskIds |-> FALSE]
  /\ output = [t \in TaskIds |-> FALSE]
  /\ nextId = 1
  /\ sweep = [pc |-> "sleeping", current_time |-> 0, visited |-> {}, size |-> 0,
              to_remove |-> {}]

\* The worker of task t raises msg: control goes to the except clause.
Raise(t, msg) ==
  /\ exc' = [exc EXCEPT ![t] = msg]
  /\ raisedAt' = [raisedAt EXCEPT ![t] = [status |-> status[t], progress |-> progress[t]]]
  /\ wpc' = [wpc EXCEPT ![t] = "L167"]

\* POST /api/generate: the status code answered.
GenerateCode(has_key, has_prompt) ==
  IF ~has_key THEN 400 ELSE IF ~has_prompt THEN 400 ELSE 200

\* POST /api/generate: a request without key or prompt is refused; otherwise the
\* upload (if any) is saved, the task is registered under a fresh id and its
\* worker thread is started.
PostGenerate(has_key, has_prompt, model, has_file) ==
  /\ nextId <= MaxTasks
  /\ IF GenerateCode(has_key, has_prompt) # 200
     THEN UNCHANGED <<active_tasks, wpc, args, upload, nextId>>
     ELSE /\ upload' = [upload EXCEPT ![nextId] = has_file]
          /\ active_tasks' = active_tasks \cup {nextId}
          /\ args' = [args EXCEPT ![nextId] = [model |-> model, input_file_path |-> has_file]]
          /\ wpc' = [wpc EXCEPT ![nextId] = "L130"]
          /\ nextId' = nextId + 1
  /\ UNCHANGED <<status, progress, result_path, error, finished_at, exc, raisedAt,
                 output, sweep, genvars, uivars>>

\* ---- generate_image_background(task, api_key, model, prompt, input_file_path),
\* one action per statement; W<n> is the statement at line n.
WorkerFrame == <<active_tasks, finished_at, args, nextId, sweep, genvars, uivars>>

\* W130 with the initializing state skipped.
W130_skip(t) ==
  /\ wpc[t] = "L130"
  /\ status' = [status EXCEPT ![t] = "generating"]
  /\ wpc' = [wpc EXCEPT ![t] = "L131"]
  /\ UNCHANGED <<progress, result_path, error, exc, raisedAt, upload, output, WorkerFrame>>

\* task.status = "initializing"
W130(t) ==
  /\ wpc[t] = "L130"
  /\ status' = [status EXCEPT ![t] = "initializing"]
  /\ wpc' = [wpc EXCEPT ![t] = "L131"]
  /\ UNCHANGED <<progress, result_path, error, exc, raisedAt, upload, output, WorkerFrame>>

\* task.progress = 10
W131(t) ==
  /\ wpc[t] = "L131"
  /\ progress' = [progress EXCEPT ![t] = 10]
  /\ wpc' = [wpc EXCEPT ![t] = "L135"]
  /\ UNCHANGED <<status, result_path, error, exc, raisedAt, upload, output, WorkerFrame>>

\* W135 with an unknown model let through.
W135_default(t) ==
  /\ wpc[t] = "L135"
  /\ wpc' = [wpc EXCEPT ![t] = "L137"]
  /\ UNCHANGED <<status, progress, result_path, error, exc, raisedAt, upload, output,
                 WorkerFrame>>

\* W135 with the constructor's exception escaping the thread.
W135_die(t) ==
  /\ wpc[t] = "L135"
  /\ wpc' = [wpc EXCEPT ![t] = IF args[t].model \in Models THEN "L137" ELSE "died"]
  /\ UNCHANGED <<status, progress, result_path, error, exc, raisedAt, upload, output,
                 WorkerFrame>>

\* generator = GeminiImageGenerator(api_key=api_key, model=model): the handler
\* has checked the key, so the constructor raises only for an unknown model.
W135(t) ==
  /\ wpc[t] = "L135"
  /\ IF args[t].model \in Models
     THEN /\ wpc' = [wpc EXCEPT ![t] = "L137"]
          /\ UNCHANGED <<exc, raisedAt>>
     ELSE Raise(t, "Model not supported")
  /\ UNCHANGED <<status, progress, result_path, error, upload, output, WorkerFrame>>

\* task.status = "generating"
W137(t) ==
  /\ wpc[t] = "L137"
  /\ status' = [status EXCEPT ![t] = "generating"]
  /\ wpc' = [wpc EXCEPT ![t] = "L138"]
  /\ UNCHANGED <<progress, result_path, error, exc, raisedAt, upload, output, WorkerFrame>>

\* task.progress = 30
W138(t) ==
  /\ wpc[t] = "L138"
  /\ progress' = [progress EXCEPT ![t] = 30]
  /\ wpc' = [wpc EXCEPT ![t] = "L146"]
  /\ UNCHANGED <<status, result_path, error, exc, raisedAt, upload, output, WorkerFrame>>

\* if input_file_path and os.path.exists(input_file_path):
\*     result_path = generator.generate_image_with_input(...)
\* else: result_path = generator.generate_image_from_prompt(...)
\* The endpoint answers with reply; on success the output file is written.
W146(t, reply) ==
  /\ wpc[t] = "L146"
  /\ LET out == IF args[t].input_file_path /\ upload[t]
                THEN ExtractImageWithInput(upload[t], reply)
                ELSE ExtractImage(reply)
     IN IF out.ok
        THEN /\ output' = [output EXCEPT ![t] = TRUE]
             /\ wpc' = [wpc EXCEPT ![t] = "L157"]
             /\ UNCHANGED <<exc, raisedAt>>
        ELSE /\ Raise(t, out.error)
             /\ UNCHANGED output
  /\ UNCHANGED <<status, progress, result_path, error, upload, WorkerFrame>>

\* task.status = "completed"
W157(t) ==
  /\ wpc[t] = "L157"
  /\ status' = [status EXCEPT ![t] = "completed"]
  /\ wpc' = [wpc EXCEPT ![t] = "L158"]
  /\ UNCHANGED <<progress, result_path, error, exc, raisedAt, upload, output, WorkerFrame>>

\* task.progress = 100
W158(t) ==
  /\ wpc[t] = "L158"
  /\ progress' = [progress EXCEPT ![t] = 100]
  /\ wpc' = [wpc EXCEPT ![t] = "L160"]
  /\ UNCHANGED <<status, result_path, error, exc, raisedAt, upload, output, WorkerFrame>>

\* task.result_path = result_path
W160(t) ==
  /\ wpc[t] = "L160"
  /\ result_path' = [result_path EXCEPT ![t] = OutputPath(t)]
  /\ wpc' = [wpc EXCEPT ![t] = "L163"]
  /\ UNCHANGED <<status, progress, error, exc, raisedAt, upload, output, WorkerFrame>>

\* if input_file_path and os.path.exists(input_file_path): os.remove(input_file_path)
\* still inside the try block: os.remove succeeds, or raises OSError (removed is
\* the outcome the file system gives).
W163(t, removed) ==
  /\ wpc[t] = "L163"
  /\ IF args[t].input_file_path /\ upload[t]
     THEN IF removed
          THEN /\ upload' = [upload EXCEPT ![t] = FALSE]
               /\ wpc' = [wpc EXCEPT ![t] = "done"]
               /\ UNCHANGED <<exc, raisedAt>>
          ELSE /\ Raise(t, "OSError")
               /\ UNCHANGED upload
     ELSE /\ wpc' = [wpc EXCEPT ![t] = "done"]
          /\ UNCHANGED <<exc, raisedAt, upload>>
  /\ UNCHANGED <<status, progress, result_path, error, output, WorkerFrame>>

\* W167 with the task sent back to be retried.
W167_retry(t) ==
  /\ wpc[t] = "L167"
  /\ status' = [status EXCEPT ![t] = "pending"]
  /\ wpc' = [wpc EXCEPT ![t] = "L168"]
  /\ UNCHANGED <<progress, result_path, error, exc, raisedAt, upload, output, WorkerFrame>>

\* W167 with the progress reset.
W167_reset(t) ==
  /\ wpc[t] = "L167"
  /\ status' = [status EXCEPT ![t] = "error"]
  /\ progress' = [progress EXCEPT ![t] = 0]
  /\ wpc' = [wpc EXCEPT ![t] = "L168"]
  /\ UNCHANGED <<result_path, error, exc, raisedAt, upload, output, WorkerFrame>>

\* except Exception as e: task.status = "error"
W167(t) ==
  /\ wpc[t] = "L167"
  /\ status' = [status EXCEPT ![t] = "error"]
  /\ wpc' = [wpc EXCEPT ![t] = "L168"]
  /\ UNCHANGED <<progress, result_path, error, exc, raisedAt, upload, output, WorkerFrame>>

\* task.error = str(e)
W168(t) ==
  /\ wpc[t] = "L168"
  /\ error' = [error EXCEPT ![t] = exc[t]]
  /\ wpc' = [wpc EXCEPT ![t] = "L172"]
  /\ UNCHANGED <<status, progress, result_path, exc, raisedAt, upload, output, WorkerFrame>>

\* if input_file_path and os.path.exists(input_file_path): os.remove(input_file_path)
\* in the except clause: an OSError here ends the thread ("died").
W172(t, removed) ==
  /\ wpc[t] = "L172"
  /\ IF args[t].input_file_path /\ upload[t]
     THEN IF removed
          THEN /\ upload' = [upload EXCEPT ![t] = FALSE]
               /\ wpc' = [wpc EXCEPT ![t] = "done"]
          ELSE /\ wpc' = [wpc EXCEPT ![t] = "died"]
               /\ UNCHANGED upload
     ELSE /\ wpc' = [wpc EXCEPT ![t] = "done"]
          /\ UNCHANGED upload
  /\ UNCHANGED <<status, progress, result_path, error, exc, raisedAt, output, WorkerFrame>>

Worker(t) ==
  \/ W130(t) \/ W131(t) \/ W135(t) \/ W137(t) \/ W138(t)
  \/ \E reply \in SampleReplies : W146(t, reply)
  \/ W157(t) \/ W158(t) \/ W160(t)
  \/ \E removed \in BOOLEAN : W163(t, removed)
  \/ W167(t) \/ W168(t)
  \/ \E removed \in BOOLEAN : W172(t, removed)

\* ---- the HTTP handlers that read or evict a task
TaskFrame == <<status, progress, result_path, error, wpc, args, exc, raisedAt, upload,
               nextId, sweep, genvars, uivars>>

\* GET /api/status/<task_id>: the answer.
StatusResponse(id) ==
  IF id \notin active_tasks
  THEN [code |-> 404]
  ELSE [code |-> 200, task_id |-> id, status |-> status[id], progress |-> progress[id],
        urls |-> (status[id] = "completed" /\ result_path[id] # None),
        error |-> IF status[id] = "error" THEN error[id] ELSE None]

get_task_status(id) ==
  /\ StatusResponse(id).code \in {200, 404}
  /\ UNCHANGED <<active_tasks, finished_at, output, TaskFrame>>

\* The answer of download_image and of preview_image, which differ only in
\* the as_attachment flag of send_file.
SendImage(id) ==
  IF id \notin active_tasks THEN [code |-> 404, error |-> "Task not found"]
  ELSE IF status[id] # "completed" \/ result_path[id] = None
       THEN [code |-> 400, error |-> "Image not ready"]
  ELSE IF ~output[id] THEN [code |-> 404, error |-> "File not found"]
  ELSE [code |-> 200, error |-> None]

\* GET /api/download/<task_id>
download_image(id) ==
  /\ SendImage(id).code \in {200, 400, 404}
  /\ UNCHANGED <<active_tasks, finished_at, output, TaskFrame>>

\* GET /api/preview/<task_id>
preview_image(id) ==
  /\ SendImage(id).code \in {200, 400, 404}
  /\ UNCHANGED <<active_tasks, finished_at, output, TaskFrame>>

\* DELETE /api/cleanup/<task_id>: the status code answered.
CleanupCode(id) == IF id \notin active_tasks THEN 404 ELSE 200

\* cleanup_task without del active_tasks[task_id].
cleanup_task_keep(id) ==
  /\ IF CleanupCode(id) = 404
     THEN UNCHANGED <<active_tasks, output>>
     ELSE /\ output' = IF result_path[id] # None /\ output[id]
                       THEN [output EXCEPT ![id] = FALSE] ELSE output
          /\ UNCHANGED active_tasks
  /\ UNCHANGED <<finished_at, TaskFrame>>

\* DELETE /api/cleanup/<task_id>: the result file, if the task names one that
\* exists, is removed, and the task leaves the registry.
cleanup_task(id) ==
  /\ IF CleanupCode(id) = 404
     THEN UNCHANGED <<active_tasks, output>>
     ELSE /\ output' = IF result_path[id] # None /\ output[id]
                       THEN [output EXCEPT ![id] = FALSE] ELSE output
          /\ active_tasks' = active_tasks \ {id}
  /\ UNCHANGED <<finished_at, TaskFrame>>

\* ---- the cleanup thread: time.sleep(300), then cleanup_old_tasks() once
SweepFrame == <<status, progress, result_path, error, wpc, args, exc, raisedAt, upload,
                nextId, genvars, uivars>>

\* hasattr(task, 'created_at'): no statement of the program sets created_at.
HasCreatedAt(t) == FALSE

\* The sleep is over, SWEEP_SLEEP seconds after the start of the process:
\* current_time = time.time(), to_remove = [], and the iteration over
\* active_tasks.items() begins.
SweepStart ==
  /\ sweep.pc = "sleeping"
  /\ sweep' = [pc |-> "iterating", current_time |-> SWEEP_SLEEP, visited |-> {},
               size |-> Cardinality(active_tasks), to_remove |-> {}]
  /\ UNCHANGED <<active_tasks, finished_at, output, SweepFrame>>

\* Whether the body of the for-loop appends task t to to_remove.
Expired(t, current_time) ==
  \/ HasCreatedAt(t) /\ current_time > MAX_AGE
  \/ /\ status[t] \in Terminal
     /\ finished_at[t] # NoTime
     /\ current_time - finished_at[t] > IDLE_WINDOW

\* One step of the for-loop over the dictionary: a dictionary whose size has
\* changed since the loop began raises RuntimeError, which ends the thread;
\* otherwise the next key in insertion order is visited, and after the last
\* one the loop ends.
SweepVisit ==
  /\ sweep.pc = "iterating"
  /\ IF Cardinality(active_tasks) # sweep.size
     THEN /\ sweep' = [sweep EXCEPT !.pc = "crashed"]
          /\ UNCHANGED finished_at
     ELSE IF active_tasks \ sweep.visited = {}
     THEN /\ sweep' = [sweep EXCEPT !.pc = "removing"]
          /\ UNCHANGED finished_at
     ELSE LET t == CHOOSE x \in active_tasks \ sweep.visited :
                     \A y \in active_tasks \ sweep.visited : x <= y
          IN /\ sweep' = [sweep EXCEPT !.visited = @ \cup {t},
                                       !.to_remove = IF Expired(t, sweep.current_time)
                                                     THEN @ \cup {t} ELSE @]
             /\ finished_at' = IF status[t] \in Terminal /\ finished_at[t] = NoTime
                               THEN [finished_at EXCEPT ![t] = sweep.current_time]
                               ELSE finished_at
  /\ UNCHANGED <<active_tasks, output, SweepFrame>>

\* for task_id in to_remove: the tasks still registered lose their result file
\* and their entry; then the thread ends.
SweepRemove ==
  /\ sweep.pc = "removing"
  /\ LET gone == sweep.to_remove \cap active_tasks
     IN /\ output' = [t \in TaskIds |->
                        IF t \in gone /\ result_path[t] # None THEN FALSE ELSE output[t]]
        /\ active_tasks' = active_tasks \ gone
  /\ sweep' = [sweep EXCEPT !.pc = "done"]
  /\ UNCHANGED <<finished_at, SweepFrame>>

\* ========================================= one generator and its session total
NoCost == [input_text_cost |-> 0, input_image_cost |-> 0, output_image_cost |-> 0,
           total_cost |-> 0, input_chars |-> 0]
NoResult == [ok |-> FALSE, code |-> 0, path |-> None, error |-> None, session_total |-> 0]
NoCall == [pc |-> "idle", entry |-> "none", method |-> "none", input_chars |-> 0,
           file_exists |-> FALSE, model |-> DefaultModel, cost_info |-> NoCost,
           entry_total |-> 0, entry_invocations |-> 0, charged |-> FALSE,
           input_stored |-> FALSE, result |-> NoResult]
NoFile == [exists |-> FALSE, data |-> Bytes(0, "none")]

\* The requests of the web UI served at the same time, and a request not yet
\* received.
ReqIds == 1..MaxReqs
NoReq == [pc |-> "idle", model |-> DefaultModel, cost_info |-> NoCost, priced |-> None,
          sent |-> None, code |-> 0]

GenInit ==
  /\ generator = [session |-> "none", model |-> DefaultModel, total_cost |-> 0]
  /\ reqs = [r \in ReqIds |-> NoReq]
  /\ call = NoCall
  /\ response = NoResponse
  /\ outfile = NoFile
  /\ invocations = 0
  /\ ncalls = 0
  /\ reported = 0
  /\ failures = 0

\* GeminiImageGenerator(api_key, model) by the command line or the desktop
\* form: an unknown model raises ValueError and no generator exists.
Construct(model) ==
  /\ generator.session = "none"
  /\ generator' = IF model \in Models
                  THEN [session |-> "lib", model |-> model, total_cost |-> 0]
                  ELSE generator
  /\ UNCHANGED <<call, response, outfile, invocations, ncalls, reported, failures, webvars, uivars, reqs>>

\* The caller of a library session calls generate_image_from_prompt (method
\* "from_prompt") or generate_image_with_input ("with_input") with a prompt of
\* input_chars characters; file_exists says whether the input image exists.
LibCall(method, input_chars, file_exists, limit) ==
  /\ generator.session = "lib"
  /\ call.pc \in {"idle", "returned"}
  /\ ncalls < limit
  /\ ncalls' = ncalls + 1
  /\ call' = [NoCall EXCEPT !.pc = "charge", !.entry = "lib", !.method = method,
                            !.input_chars = input_chars, !.file_exists = file_exists,
                            !.model = generator.model,
                            !.entry_total = generator.total_cost,
                            !.entry_invocations = invocations]
  /\ outfile' = NoFile
  /\ UNCHANGED <<generator, response, invocations, reported, failures, webvars, uivars, reqs>>

\* The first statements of both generate methods: cost_info = calculate_cost(...)
\* and self.total_cost += cost_info['total_cost'].
Charge ==
  /\ call.pc = "charge"
  /\ LET cost_info == calculate_cost(generator.model, call.input_chars,
                                     call.method = "with_input")
     IN /\ generator' = [generator EXCEPT !.total_cost = @ + cost_info.total_cost]
        /\ call' = [call EXCEPT !.pc = "invoke", !.cost_info = cost_info, !.charged = TRUE]
  /\ UNCHANGED <<response, outfile, invocations, ncalls, reported, failures, webvars, uivars, reqs>>

\* The call has failed: the exception leaves the generate method with msg; app.py
\* turns it into a 500 answer.
Failed(msg) ==
  [NoResult EXCEPT !.error = msg, !.code = IF call.entry = "app" THEN 500 ELSE 0]

\* with_input first loads the input image, which raises when the file is missing;
\* then self.client.models.generate_content(...) is called and answers with one
\* of replies.
Invoke(replies) ==
  /\ call.pc = "invoke"
  /\ IF call.method = "with_input" /\ ~call.file_exists
     THEN /\ call' = [call EXCEPT !.pc = "returned",
                        !.result = Failed(ExtractImageWithInput(FALSE, Raises).error)]
          /\ failures' = failures + 1
          /\ UNCHANGED <<response, invocations>>
     ELSE /\ \E reply \in replies : response' = reply
          /\ invocations' = invocations + 1
          /\ call' = [call EXCEPT !.pc = "parse"]
          /\ UNCHANGED failures
  /\ UNCHANGED <<generator, outfile, ncalls, reported, webvars, uivars, reqs>>

\* Finish with the charge taken back when the call fails.
Finish_refund ==
  /\ call.pc = "parse"
  /\ LET out == ExtractImage(response)
     IN IF out.ok
        THEN /\ outfile' = [exists |-> TRUE, data |-> out.data]
             /\ IF call.entry = "app"
                THEN /\ call' = [call EXCEPT !.pc = "app_return"]
                     /\ UNCHANGED reported
                ELSE /\ call' = [call EXCEPT !.pc = "returned",
                                   !.result = [NoResult EXCEPT !.ok = TRUE,
                                                               !.path = "output_path"]]
                     /\ reported' = reported + call.cost_info.total_cost
             /\ UNCHANGED <<failures, generator>>
        ELSE /\ call' = [call EXCEPT !.pc = "returned", !.result = Failed(out.error)]
             /\ generator' = [generator EXCEPT !.total_cost = @ - call.cost_info.total_cost]
             /\ failures' = failures + 1
             /\ UNCHANGED <<outfile, reported>>
  /\ UNCHANGED <<response, invocations, ncalls, webvars, uivars, reqs>>

\* Finish with one more try of the endpoint after it raised.
Finish_retry ==
  /\ call.pc = "parse"
  /\ LET out == ExtractImage(response)
     IN IF out.ok
        THEN /\ outfile' = [exists |-> TRUE, data |-> out.data]
             /\ IF call.entry = "app"
                THEN /\ call' = [call EXCEPT !.pc = "app_return"]
                     /\ UNCHANGED reported
                ELSE /\ call' = [call EXCEPT !.pc = "returned",
                                   !.result = [NoResult EXCEPT !.ok = TRUE,
                                                               !.path = "output_path"]]
                     /\ reported' = reported + call.cost_info.total_cost
             /\ UNCHANGED failures
        ELSE IF response.kind = "raises" /\ invocations < call.entry_invocations + 2
        THEN /\ call' = [call EXCEPT !.pc = "invoke"]
             /\ UNCHANGED <<outfile, reported, failures>>
        ELSE /\ call' = [call EXCEPT !.pc = "returned", !.result = Failed(out.error)]
             /\ failures' = failures + 1
             /\ UNCHANGED <<outfile, reported>>
  /\ UNCHANGED <<generator, response, invocations, ncalls, webvars, uivars, reqs>>

\* The rest of the try block: the first image of the response is written to
\* output_path and the path returned, or the call fails.
Finish ==
  /\ call.pc = "parse"
  /\ LET out == ExtractImage(response)
     IN IF out.ok
        THEN /\ outfile' = [exists |-> TRUE, data |-> out.data]
             /\ IF call.entry = "app"
                THEN /\ call' = [call EXCEPT !.pc = "app_return"]
                     /\ UNCHANGED reported
                ELSE /\ call' = [call EXCEPT !.pc = "returned",
                                   !.result = [NoResult EXCEPT !.ok = TRUE,
                                                               !.path = "output_path"]]
                     /\ reported' = reported + call.cost_info.total_cost
             /\ UNCHANGED failures
        ELSE /\ call' = [call EXCEPT !.pc = "returned", !.result = Failed(out.error)]
             /\ failures' = failures + 1
             /\ UNCHANGED <<outfile, reported>>
  /\ UNCHANGED <<generator, response, invocations, ncalls, webvars, uivars, reqs>>

\* ---- app.py: the web UI, whose endpoints share one global generator
\* POST /api/generate (route "generate") and POST /api/generate_with_input,
\* up to the call of the generate method: the generator is created on the
\* first request if GEMINI_API_KEY is set (env_key); an empty prompt and a
\* missing upload are refused; generator.model is set to the model asked for,
\* unchecked; cost_info = generator.calculate_cost(...) raises KeyError for a
\* model that is not in the table; generate_with_input then stores the upload
\* in a temporary file that outlives the with block (input_stored).
AppStart(route, model, input_chars, has_file, env_key, limit) ==
  /\ generator.session \in {"none", "app"}
  /\ call.pc \in {"idle", "returned"}
  /\ ncalls < limit
  /\ LET frame == [NoCall EXCEPT !.entry = "app",
                     !.method = IF route = "generate" THEN "from_prompt" ELSE "with_input",
                     !.input_chars = input_chars, !.file_exists = has_file,
                     !.model = model,
                     !.entry_total = generator.total_cost,
                     !.entry_invocations = invocations]
         refused(code, msg) ==
           [frame EXCEPT !.pc = "returned",
                         !.result = [NoResult EXCEPT !.code = code, !.error = msg]]
         created == [generator EXCEPT !.session = "app"]
     IN IF generator.session = "none" /\ ~env_key
        THEN /\ call' = refused(500, "Generator not initialized. Check GEMINI_API_KEY")
             /\ UNCHANGED <<generator, ncalls>>
        ELSE IF input_chars = 0
        THEN /\ call' = refused(400, "Prompt is required")
             /\ generator' = created
             /\ UNCHANGED ncalls
        ELSE IF route = "generate_with_input" /\ ~has_file
        THEN /\ call' = refused(400, "Input image is required")
             /\ generator' = created
             /\ UNCHANGED ncalls
        ELSE IF model \notin Models
        THEN /\ call' = refused(500, "KeyError")
             /\ generator' = [created EXCEPT !.model = model]
             /\ UNCHANGED ncalls
        ELSE /\ call' = [frame EXCEPT !.pc = "charge",
                           !.cost_info = calculate_cost(model, input_chars,
                                                        route = "generate_with_input"),
                           !.input_stored = (route = "generate_with_input")]
             /\ generator' = [created EXCEPT !.model = model]
             /\ ncalls' = ncalls + 1
  /\ outfile' = NoFile
  /\ UNCHANGED <<response, invocations, reported, failures, webvars, uivars, reqs>>

\* AppReturn with = for +=.
AppReturn_assign ==
  /\ call.pc = "app_return"
  /\ generator' = [generator EXCEPT !.total_cost = call.cost_info.total_cost]
  /\ outfile' = NoFile
  /\ call' = [call EXCEPT !.pc = "returned", !.input_stored = FALSE,
                !.result = [NoResult EXCEPT !.ok = TRUE, !.code = 200,
                              !.session_total = generator'.total_cost]]
  /\ reported' = reported + call.cost_info.total_cost
  /\ UNCHANGED <<response, invocations, ncalls, failures, webvars, uivars, reqs>>

\* The generate method has returned to the endpoint: the image is read and the
\* temporary files (the stored upload too) unlinked,
\* generator.total_cost += cost_info['total_cost'], and
\* the answer carries cost_info and session_total.
AppReturn ==
  /\ call.pc = "app_return"
  /\ generator' = [generator EXCEPT !.total_cost = @ + call.cost_info.total_cost]
  /\ outfile' = NoFile
  /\ call' = [call EXCEPT !.pc = "returned", !.input_stored = FALSE,
                !.result = [NoResult EXCEPT !.ok = TRUE, !.code = 200,
                              !.session_total = generator'.total_cost]]
  /\ reported' = reported + call.cost_info.total_cost
  /\ UNCHANGED <<response, invocations, ncalls, failures, webvars, uivars, reqs>>

\* GET /api/reset_cost: generator.total_cost = 0.0 when the generator exists.
reset_cost ==
  /\ generator.session \in {"none", "app"}
  /\ call.pc \in {"idle", "returned"}
  /\ IF generator.session = "app"
     THEN /\ generator' = [generator EXCEPT !.total_cost = 0]
          /\ reported' = 0
          /\ failures' = 0
     ELSE UNCHANGED <<generator, reported, failures>>
  /\ call' = [NoCall EXCEPT !.pc = "returned", !.entry = "app", !.method = "reset_cost",
                            !.entry_total = generator.total_cost,
                            !.entry_invocations = invocations,
                            !.result = IF generator.session = "app"
                                       THEN [NoResult EXCEPT !.ok = TRUE, !.code = 200]
                                       ELSE [NoResult EXCEPT !.code = 500,
                                               !.error = "Generator not initialized"]]
  /\ UNCHANGED <<response, outfile, invocations, ncalls, webvars, uivars, reqs>>

\* ---- app.py with overlapping requests: the threads of the server run
\* generate_image (lines 43-87) on the one global generator; R<n> is the step
\* of request r at line n, and lines 157-169 are those of the generate method.
SharedFrame == <<call, response, outfile, ncalls, reported, failures, webvars, uivars>>

\* lines 46-56: the request asks for model with a non-empty prompt; the global
\* generator is created if there is none, which needs GEMINI_API_KEY (env_key).
R46(r, model, env_key) ==
  /\ reqs[r].pc = "idle"
  /\ IF generator.session = "none" /\ ~env_key
     THEN /\ reqs' = [reqs EXCEPT ![r] = [@ EXCEPT !.pc = "done", !.model = model,
                                                    !.code = 500]]
          /\ UNCHANGED generator
     ELSE /\ reqs' = [reqs EXCEPT ![r] = [@ EXCEPT !.pc = "L59", !.model = model]]
          /\ generator' = [generator EXCEPT !.session = "app"]
  /\ UNCHANGED <<invocations, SharedFrame>>

\* lines 59-60: if generator.model != model: generator.model = model
R59(r) ==
  /\ reqs[r].pc = "L59"
  /\ generator' = [generator EXCEPT !.model = reqs[r].model]
  /\ reqs' = [reqs EXCEPT ![r].pc = "L63"]
  /\ UNCHANGED <<invocations, SharedFrame>>

\* line 63: cost_info = generator.calculate_cost(prompt), from the prices of
\* the generator's model at this moment; KeyError (answered 500) when that
\* model is not in the table.
R63(r) ==
  /\ reqs[r].pc = "L63"
  /\ reqs' = [reqs EXCEPT ![r] =
                IF generator.model \in Models
                THEN [@ EXCEPT !.pc = "L157", !.priced = generator.model,
                               !.cost_info = calculate_cost(generator.model, MaxPromptLen, FALSE)]
                ELSE [@ EXCEPT !.pc = "done", !.code = 500]]
  /\ UNCHANGED <<generator, invocations, SharedFrame>>

\* gemini_image_generator.py lines 157-162, entered from line 67: the method
\* computes the cost from self.model again and adds it to self.total_cost.
R157(r) ==
  /\ reqs[r].pc = "L157"
  /\ IF generator.model \in Models
     THEN /\ generator' = [generator EXCEPT !.total_cost =
                             @ + calculate_cost(generator.model, MaxPromptLen, FALSE).total_cost]
          /\ reqs' = [reqs EXCEPT ![r].pc = "L166"]
     ELSE /\ reqs' = [reqs EXCEPT ![r] = [@ EXCEPT !.pc = "done", !.code = 500]]
          /\ UNCHANGED generator
  /\ UNCHANGED <<invocations, SharedFrame>>

\* lines 166-169: generate_content(model=self.model, ...) is invoked with the
\* generator's model at this moment; the call gives an image (ok) or fails.
R166(r, ok) ==
  /\ reqs[r].pc = "L166"
  /\ invocations' = invocations + 1
  /\ reqs' = [reqs EXCEPT ![r] =
                IF ok THEN [@ EXCEPT !.pc = "L77", !.sent = generator.model]
                ELSE [@ EXCEPT !.pc = "done", !.sent = generator.model, !.code = 500]]
  /\ UNCHANGED <<generator, SharedFrame>>

\* app.py lines 77-84: generator.total_cost += cost_info['total_cost'] and the
\* answer.
R77(r) ==
  /\ reqs[r].pc = "L77"
  /\ generator' = [generator EXCEPT !.total_cost = @ + reqs[r].cost_info.total_cost]
  /\ reqs' = [reqs EXCEPT ![r] = [@ EXCEPT !.pc = "done", !.code = 200]]
  /\ UNCHANGED <<invocations, SharedFrame>>

NextShared ==
  \/ \E r \in ReqIds, model \in Models \cup {UnknownModel}, env_key \in BOOLEAN :
        R46(r, model, env_key)
  \/ \E r \in ReqIds : R59(r)
  \/ \E r \in ReqIds : R63(r)
  \/ \E r \in ReqIds : R157(r)
  \/ \E r \in ReqIds, ok \in BOOLEAN : R166(r, ok)
  \/ \E r \in ReqIds : R77(r)

\* ======================================================================= ui.py
UiWorkers == 1..MaxClicks
NoWorker == [pc |-> "idle", exc |-> None, with_input |-> FALSE]

UiInit ==
  /\ generate_btn = "normal"
  /\ uiw = [w \in UiWorkers |-> NoWorker]
  /\ clicks = 0
  /\ after_q = 0
  /\ status_label = "Ready"

\* The worker threads that have been started and have not run their last statement.
UiRunning == {w \in UiWorkers : uiw[w].pc \notin {"idle", "done"}}

\* generate_image without the button being disabled.
ui_generate_image_nodisable ==
  /\ generate_btn = "normal"
  /\ clicks < MaxClicks
  /\ clicks' = clicks + 1
  /\ uiw' = [uiw EXCEPT ![clicks + 1] = [NoWorker EXCEPT !.pc = "L228"]]
  /\ UNCHANGED <<generate_btn, after_q, status_label, webvars, genvars>>

\* GeminiImageGeneratorUI.generate_image, the command of the generate button,
\* which a disabled button does not run: the button is disabled, then the
\* worker thread is started.  It runs on the main loop, as one callback.
ui_generate_image ==
  /\ generate_btn = "normal"
  /\ clicks < MaxClicks
  /\ generate_btn' = "disabled"
  /\ clicks' = clicks + 1
  /\ uiw' = [uiw EXCEPT ![clicks + 1] = [NoWorker EXCEPT !.pc = "L228"]]
  /\ UNCHANGED <<after_q, status_label, webvars, genvars>>

\* generate_image_thread, lines 228-240: the fields of the form are read and
\* validated; a missing field raises ValueError.
T228(w, has_key, has_prompt, has_output, with_input) ==
  /\ uiw[w].pc = "L228"
  /\ uiw' = [uiw EXCEPT ![w] =
               IF ~has_key THEN [@ EXCEPT !.pc = "L263", !.exc = "API key is required"]
               ELSE IF ~has_prompt THEN [@ EXCEPT !.pc = "L263", !.exc = "Prompt is required"]
               ELSE IF ~has_output
               THEN [@ EXCEPT !.pc = "L263", !.exc = "Output path is required"]
               ELSE [@ EXCEPT !.pc = "L243", !.with_input = with_input]]
  /\ UNCHANGED <<generate_btn, clicks, after_q, status_label, webvars, genvars>>

\* lines 243-244: the status is updated and the generator constructed, which
\* raises for a model that is not in the table.
T243(w, model) ==
  /\ uiw[w].pc = "L243"
  /\ status_label' = "Initializing generator..."
  /\ uiw' = [uiw EXCEPT ![w] =
               IF model \in Models THEN [@ EXCEPT !.pc = "L247"]
               ELSE [@ EXCEPT !.pc = "L263", !.exc = "Model not supported"]]
  /\ UNCHANGED <<generate_btn, clicks, after_q, webvars, genvars>>

\* lines 247-256: the status is updated and the generate method called; the
\* endpoint answers with reply.
T247(w, reply) ==
  /\ uiw[w].pc = "L247"
  /\ status_label' = IF uiw[w].with_input THEN "Generating image with input..."
                     ELSE "Generating image from prompt..."
  /\ LET out == IF uiw[w].with_input THEN ExtractImageWithInput(TRUE, reply)
                ELSE ExtractImage(reply)
     IN uiw' = [uiw EXCEPT ![w] =
                  IF out.ok THEN [@ EXCEPT !.pc = "L259"]
                  ELSE [@ EXCEPT !.pc = "L263", !.exc = out.error]]
  /\ UNCHANGED <<generate_btn, clicks, after_q, webvars, genvars>>

\* lines 259-260: the preview is scheduled and the status says success.
T259(w) ==
  /\ uiw[w].pc = "L259"
  /\ status_label' = "Success! Image saved"
  /\ uiw' = [uiw EXCEPT ![w].pc = "L267"]
  /\ UNCHANGED <<generate_btn, clicks, after_q, webvars, genvars>>

\* lines 262-264, except Exception as e: the status and a message box show the error.
T263(w) ==
  /\ uiw[w].pc = "L263"
  /\ status_label' = "Error"
  /\ uiw' = [uiw EXCEPT ![w].pc = "L267"]
  /\ UNCHANGED <<generate_btn, clicks, after_q, webvars, genvars>>

\* lines 265-267, finally: self.root.after(0, self.generation_finished), the
\* last statement of the thread.
T267(w) ==
  /\ uiw[w].pc = "L267"
  /\ after_q' = after_q + 1
  /\ uiw' = [uiw EXCEPT ![w].pc = "done"]
  /\ UNCHANGED <<generate_btn, clicks, status_label, webvars, genvars>>

\* generation_finished, run by the main loop: the button is enabled again.
generation_finished ==
  /\ after_q > 0
  /\ after_q' = after_q - 1
  /\ generate_btn' = "normal"
  /\ UNCHANGED <<uiw, clicks, status_label, webvars, genvars>>

NextUI ==
  \/ ui_generate_image
  \/ \E w \in UiWorkers, has_key, has_prompt, has_output, with_input \in BOOLEAN :
        T228(w, has_key, has_prompt, has_output, with_input)
  \/ \E w \in UiWorkers, model \in {DefaultModel, UnknownModel} : T243(w, model)
  \/ \E w \in UiWorkers, reply \in SampleReplies : T247(w, reply)
  \/ \E w \in UiWorkers : T259(w)
  \/ \E w \in UiWorkers : T263(w)
  \/ \E w \in UiWorkers : T267(w)
  \/ generation_finished

Next ==
  \/ \E has_key, has_prompt, has_file \in BOOLEAN, model \in {DefaultModel, UnknownModel} :
        PostGenerate(has_key, has_prompt, model, has_file)
  \/ \E t \in TaskIds : Worker(t)
  \/ \E id \in TaskIds : get_task_status(id)
  \/ \E id \in TaskIds : download_image(id)
  \/ \E id \in TaskIds : preview_image(id)
  \/ \E id \in TaskIds : cleanup_task(id)
  \/ SweepStart
  \/ SweepVisit
  \/ SweepRemove

Init == WebInit /\ GenInit /\ UiInit

Spec == Init /\ [][Next]_vars

\* Scheduling: a started thread is not starved.  Each worker runs on, given
\* that its endpoint call returns or raises, and so does the cleanup thread;
\* nothing obliges a client to send a request.
WorkerFairness == \A t \in TaskIds : WF_vars(Worker(t))
SweepFairness == WF_vars(SweepStart \/ SweepVisit \/ SweepRemove)

\* The tasks and their workers, with the requests that create and evict tasks.
NextWorkers ==
  \/ \E has_key, has_prompt, has_file \in BOOLEAN, model \in {DefaultModel, UnknownModel} :
        PostGenerate(has_key, has_prompt, model, has_file)
  \/ \E t \in TaskIds : Worker(t)
  \/ \E id \in TaskIds : cleanup_task(id)

SpecWorkers == Init /\ [][NextWorkers]_vars /\ WorkerFairness

\* The task API when no client sends DELETE /api/cleanup.
NextSweep ==
  \/ \E has_key, has_prompt, has_file \in BOOLEAN, model \in {DefaultModel, UnknownModel} :
        PostGenerate(has_key, has_prompt, model, has_file)
  \/ \E t \in TaskIds : Worker(t)
  \/ \E id \in TaskIds : get_task_status(id)
  \/ \E id \in TaskIds : download_image(id)
  \/ \E id \in TaskIds : preview_image(id)
  \/ SweepStart
  \/ SweepVisit
  \/ SweepRemove

SpecSweep == Init /\ [][NextSweep]_vars /\ WorkerFairness /\ SweepFairness

\* One generator, used through the library or through the web UI, one call
\* after the other.
PromptLens == 0..MaxPromptLen
NextGen ==
  \/ \E model \in Models \cup {UnknownModel} : Construct(model)
  \/ \E method \in {"from_prompt", "with_input"}, n \in PromptLens, file_exists \in BOOLEAN :
        LibCall(method, n, file_exists, MaxCalls)
  \/ \E route \in {"generate", "generate_with_input"}, model \in Models \cup {UnknownModel},
         n \in PromptLens, has_file, env_key \in BOOLEAN :
        AppStart(route, model, n, has_file, env_key, MaxCalls)
  \/ Charge
  \/ Invoke(SampleReplies)
  \/ Finish
  \/ AppReturn
  \/ reset_cost

SpecGen == Init /\ [][NextGen]_vars

SpecUI == Init /\ [][NextUI]_vars

SpecShared == Init /\ [][NextShared]_vars

\* One process, which runs one of the programs: the task API (web_api.py), or
\* a generator behind the web UI (app.py) or the library.
NextProgram ==
  \/ /\ generator.session = "none" /\ call.pc = "idle"
     /\ NextWorkers
  \/ /\ nextId = 1
     /\ NextGen

SpecProgram == Init /\ [][NextProgram]_vars

\* One call of a generate method, for every reply of the endpoint.
NextScan ==
  \/ Construct(DefaultModel)
  \/ \E method \in {"from_prompt", "with_input"} : LibCall(method, MaxPromptLen, TRUE, 1)
  \/ Charge
  \/ Invoke(Replies)
  \/ Finish

SpecScan == Init /\ [][NextScan]_vars

\* ===================================================================== claims

\* C1: once the status of a task is completed or error, no step of the worker,
\* of a handler or of the sweep makes it pending, initializing or generating.
C1_TerminalNeverNonTerminal ==
  [][\A t \in TaskIds : status[t] \in Terminal => status'[t] \notin NonTerminal]_vars

\* A task that completed, whose worker then failed to remove the upload and ran
\* the except clause to its end.
C1_Witness ==
  \E t \in TaskIds :
    status[t] = "error" /\ raisedAt[t].status = "completed" /\ wpc[t] \in {"done", "died"}

\* C2: a terminal status is absorbing: completed stays completed and error stays
\* error in every step, the removal of the uploaded input file included.
C2_TerminalAbsorbing ==
  [][\A t \in TaskIds : status[t] \in Terminal => status'[t] = status[t]]_vars

\* C3: whatever a status request answers, in any state, a task it reports as
\* completed has progress 100 and its result path set (the answer carries the
\* download and preview URLs).
C3_CompletedHasResult ==
  \A id \in TaskIds :
    LET r == StatusResponse(id)
    IN (r.code = 200 /\ r.status = "completed") =>
         (r.progress = 100 /\ r.urls /\ result_path[id] # None)

\* C4: once the except clause has set status and error, the task carries the
\* message of the exception and the progress it had when the exception was
\* raised: 10 for a failure while initializing, 30 for one while generating.
C4_ErrorKeepsProgress ==
  \A t \in TaskIds :
    (status[t] = "error" /\ wpc[t] # "L168") =>
      /\ error[t] # None
      /\ error[t] = exc[t]
      /\ progress[t] = raisedAt[t].progress
      /\ raisedAt[t].status = "initializing" => progress[t] = 10
      /\ raisedAt[t].status = "generating" => progress[t] = 30

\* A task that failed while generating and whose except clause has set both fields.
C4_Witness ==
  \E t \in TaskIds :
    /\ status[t] = "error" /\ wpc[t] = "L172"
    /\ raisedAt[t].status = "generating" /\ progress[t] = 30

\* C5: from one step to the next the session total never decreases, except in
\* a reset step, which sets it to zero.
C5_TotalMonotone ==
  [][generator'.total_cost >= generator.total_cost
       \/ (reset_cost /\ generator'.total_cost = 0)]_vars

\* A session in which a charged call was followed by a reset.
C5_Witness ==
  /\ call.method = "reset_cost" /\ call.entry_total > 0
  /\ generator.total_cost = 0 /\ ncalls > 0

\* C6: between requests, as long as no generation has failed since the session
\* total was last zero, the session total is the sum of the total_cost values
\* reported for the successful generations.
C6_TotalIsSumOfReported ==
  (call.pc \in {"idle", "returned"} /\ failures = 0) => generator.total_cost = reported

\* C7: when the endpoint is about to be invoked the request's total cost has
\* been added to the session total and the endpoint has not been invoked for
\* this call; the addition is still there while the response is parsed and when
\* the call has failed.
C7_ChargedBeforeInvoke ==
  LET charged_total == call.entry_total + call.cost_info.total_cost
  IN /\ call.pc = "invoke" =>
          (generator.total_cost = charged_total /\ invocations = call.entry_invocations)
     /\ call.pc = "parse" => generator.total_cost = charged_total
     /\ (call.pc = "returned" /\ call.charged /\ ~call.result.ok) =>
          generator.total_cost = charged_total

\* A call that failed after the endpoint answered with no usable image.
C7_Witness ==
  /\ call.pc = "returned" /\ call.charged /\ ~call.result.ok
  /\ invocations > call.entry_invocations
  /\ call.result.error = Wrapped("No image generated in response")
  /\ generator.total_cost > call.entry_total

\* C8: the cost computed for a call is the sum of its three parts, with
\* input_text_cost = (L/1000) * input_cost_per_1k_chars, output_image_cost =
\* output_cost_per_image and input_image_cost = output_cost_per_image with an
\* input image and 0 without; an input image raises the total by exactly
\* output_cost_per_image.
C8_CostFormula ==
  (call.pc # "idle" /\ call.method \in {"from_prompt", "with_input"} /\ call.model \in Models
     /\ call.cost_info # NoCost) =>
    LET c == call.cost_info
        M == Pricing(call.model)
        L == call.input_chars
    IN /\ c.total_cost = c.input_text_cost + c.input_image_cost + c.output_image_cost
       /\ c.input_text_cost * 1000 = L * M.input_cost_per_1k_chars
       /\ c.output_image_cost = M.output_cost_per_image
       /\ c.input_image_cost =
            IF call.method = "with_input" THEN M.output_cost_per_image ELSE 0
       /\ calculate_cost(call.model, L, TRUE).total_cost
            = calculate_cost(call.model, L, FALSE).total_cost + M.output_cost_per_image

\* A cost computed for a non-empty prompt with an input image.
C8_Witness ==
  /\ call.charged /\ call.method = "with_input" /\ call.input_chars = MaxPromptLen
  /\ call.cost_info.input_image_cost > 0 /\ call.cost_info.input_text_cost > 0

\* The response of one candidate holding a text part and then part.
TextThen(part) == Response(<< <<TextPart, part>> >>)
\* The call has returned part's image b: written to the output path, path returned.
Wrote(b) ==
  /\ call.result.ok /\ call.result.path = "output_path"
  /\ outfile = [exists |-> TRUE, data |-> b]
\* The raw images of the model.
RawImages == {Bytes(n, "A") : n \in ImageLens} \cup {Bytes(751, "B")}

\* C9 as stated: a text part followed by an image part of at least 1000 bytes
\* (exactly 1000 included) is written to the output path, and the path returned.
C9_AtLeastThreshold ==
  \A b \in RawImages :
    (call.pc = "returned" /\ b.len >= MIN_IMAGE_BYTES
       /\ response = TextThen(InlinePart("image/png", b))) => Wrote(b)

\* C9 amended: a text part followed by an image part whose inline data is longer
\* than 1000 bytes, be it the raw bytes of the image or their base64 text, is
\* written (the image's bytes) to the output path, and the path returned.
C9_AboveThreshold ==
  \A b \in RawImages :
    /\ (call.pc = "returned" /\ b.len > MIN_IMAGE_BYTES
          /\ response = TextThen(InlinePart("image/png", b))) => Wrote(b)
    /\ (call.pc = "returned" /\ b64encode(b).len > MIN_IMAGE_BYTES
          /\ response = TextThen(InlinePart("image/png", b64encode(b)))) => Wrote(b)

\* A call that returned after a text part and an image part of 1001 raw bytes.
C9_Witness ==
  /\ call.pc = "returned" /\ call.result.ok
  /\ response = TextThen(Img(MIN_IMAGE_BYTES + 1))

\* The positions of the image-typed parts of a response.
ImageParts(cands) ==
  {ij \in UNION {{<<i, j>> : j \in 1..Len(cands[i])} : i \in 1..Len(cands)} :
     /\ cands[ij[1]][ij[2]].kind = "inline"
     /\ StartsWithImage(cands[ij[1]][ij[2]].mime_type)}

\* C10: when the only image-typed part of the response carries fewer than 1000
\* bytes (the length of its inline data), the call fails with the no-image
\* error, returns no path and leaves the output path unwritten.
C10_SmallImageFails ==
  (call.pc = "returned" /\ call.charged /\ response.kind = "response"
     /\ Cardinality(ImageParts(response.candidates)) = 1
     /\ \A ij \in ImageParts(response.candidates) :
          response.candidates[ij[1]][ij[2]].data.len < MIN_IMAGE_BYTES) =>
    /\ ~call.result.ok
    /\ call.result.error = Wrapped("No image generated in response")
    /\ call.result.path = None
    /\ outfile = NoFile

\* A call that returned after a response holding a long part that is no image and
\* an image part of 999 bytes.
C10_Witness ==
  /\ call.pc = "returned" /\ ~call.result.ok
  /\ response = Response(<< <<InlinePart("text/plain", Bytes(MIN_IMAGE_BYTES + 1, "C")),
                              Img(MIN_IMAGE_BYTES - 1)>> >>)

\* The task ids POST /api/generate has issued so far.
Issued == {t \in TaskIds : t < nextId}

\* C11: a status lookup answers not-found for an id that was never issued and,
\* from the eviction on, for an id whose task was cleaned up; an id is found
\* from the step that issues it until a cleanup request or the sweep evicts it.
C11_LookupFound ==
  /\ [](\A id \in TaskIds \ Issued : StatusResponse(id).code = 404)
  /\ [][\A id \in TaskIds :
          /\ (id \notin Issued /\ id \in Issued') => (StatusResponse(id).code)' = 200
          /\ (cleanup_task(id) /\ CleanupCode(id) = 200) => (StatusResponse(id).code)' = 404
          /\ (id \in Issued /\ StatusResponse(id).code = 404) => (StatusResponse(id).code)' = 404
          /\ (StatusResponse(id).code = 200 /\ (StatusResponse(id).code)' = 404)
               => (cleanup_task(id) \/ SweepRemove)]_vars

\* A task that completed, whose result file and registry entry a cleanup request
\* removed: its id is issued and no longer found.
C11_Witness ==
  \E id \in Issued :
    /\ StatusResponse(id).code = 404
    /\ status[id] = "completed" /\ result_path[id] # None /\ ~output[id]

C14_EvictedLeavesNoFile ==
  \A t \in Issued : t \notin active_tasks => ~output[t]

\* C15: accesses to the registry are mutually exclusive: while the sweep
\* iterates over the registry no other thread inserts into it or deletes from it.
C15_RegistryExclusive ==
  [][sweep.pc = "iterating" => active_tasks' = active_tasks]_vars

\* The steps the status of a task takes in generate_image_background.
ChainSteps ==
  {<<"pending", "initializing">>, <<"initializing", "generating">>,
   <<"generating", "completed">>, <<"generating", "error">>}

C13_EventuallyEvicted ==
  \A t \in TaskIds : (t \in active_tasks) ~> (t \notin active_tasks)

\* C17: every task POST /api/generate has created, its worker started,
\* eventually has status completed or error.
C17_EventuallyTerminal ==
  \A t \in TaskIds : (wpc[t] # "none") ~> (status[t] \in Terminal)

\* A task named with an unknown model whose worker has run to its end, in error.
C17_Witness ==
  \E t \in TaskIds :
    /\ wpc[t] = "done" /\ status[t] = "error"
    /\ args[t].model \notin Models /\ error[t] = "Model not supported"

\* C18: a request that names a model outside the model table fails: the
\* endpoint is not invoked for it and the session total is what it was when the
\* request came in; no library generator exists with such a model, no call
\* gets to charging or invoking with one, and in the task API the worker never
\* reaches the generate call and ends with the task in status error.
C18_UnknownModelFails ==
  /\ (call.pc = "returned" /\ call.model \notin Models) =>
        /\ ~call.result.ok
        /\ invocations = call.entry_invocations
        /\ generator.total_cost = call.entry_total
  /\ call.pc \in {"charge", "invoke", "parse", "app_return"} => call.model \in Models
  /\ generator.session = "lib" => generator.model \in Models
  /\ \A t \in TaskIds :
       args[t].model \notin Models =>
         /\ wpc[t] \in {"none", "L130", "L131", "L135", "L167", "L168", "L172", "done", "died"}
         /\ wpc[t] \in {"done", "died"} => status[t] = "error"

\* A web UI request naming an unknown model, refused after an earlier request
\* had been charged: the session total is still that of the earlier request.
C18_Witness ==
  /\ call.pc = "returned" /\ call.entry = "app" /\ call.model = UnknownModel
  /\ call.input_chars > 0 /\ call.result.code = 500 /\ call.result.error = "KeyError"
  /\ call.entry_total > 0 /\ generator.total_cost = call.entry_total

\* C20: one generate call invokes the endpoint at most once; when the
\* invocation raises, the call fails with the wrapped message of the exception,
\* the endpoint has been invoked once for it and the output file is not written.
C20_NoRetry ==
  /\ invocations <= call.entry_invocations + 1
  /\ (call.pc = "returned" /\ invocations > call.entry_invocations /\ response = Raises) =>
        /\ ~call.result.ok
        /\ call.result.error = Wrapped("endpoint error")
        /\ call.result.path = None
        /\ invocations = call.entry_invocations + 1
        /\ outfile = NoFile

\* A second call on a generator whose first call was answered, failed by the
\* endpoint raising.
C20_Witness ==
  /\ call.pc = "returned" /\ response = Raises /\ ncalls = 2
  /\ call.entry_invocations = 1 /\ invocations = 2
  /\ call.result.error = Wrapped("endpoint error")

\* C16: in the desktop form at most one worker thread is running at any time;
\* the button is disabled from the click that starts a worker until after that
\* worker has run its last statement, and it is enabled again once the worker
\* has finished and its callback has run, whichever way the worker ended.
C16_OneUiWorker ==
  /\ Cardinality(UiRunning) <= 1
  /\ UiRunning # {} => generate_btn = "disabled"
  /\ (clicks > 0 /\ UiRunning = {} /\ after_q = 0) => generate_btn = "normal"

\* A second worker generating, started by a click after the first worker failed
\* and the button was enabled again.
C16_Witness ==
  /\ clicks = 2 /\ uiw[1].pc = "done" /\ uiw[1].exc # None
  /\ uiw[2].pc = "L247" /\ generate_btn = "disabled"

\* The parts of a response in the order of the scan: candidate by candidate,
\* each candidate's parts in order.
RECURSIVE Flatten(_)
Flatten(cands) == IF cands = <<>> THEN <<>> ELSE Head(cands) \o Flatten(Tail(cands))

\* A part the claim lets be written: inline data, of an image type, longer than
\* 1000, raw bytes or a string that base64 decodes.
Qualifies(part) ==
  /\ part.kind = "inline"
  /\ part.mime_type \in {"image/png", "image/jpeg"}
  /\ part.data.len > 1000
  /\ part.data.form = "bytes" \/ part.data.valid

\* The bytes of a qualifying part: its data, or what its base64 text stands for.
ImageBytes(part) ==
  IF part.data.form = "bytes" THEN part.data
  ELSE [form |-> "bytes", len |-> 3 * (part.data.len \div 4) - part.data.pad,
        content |-> part.data.content]

\* C21: the call writes exactly the first part, in scan order, that carries
\* inline data of an image type, longer than 1000 bytes, raw or decodable from
\* base64; parts before it that do not qualify, one whose base64 text does not
\* decode included, are passed over; when no part qualifies nothing is written
\* and the call fails with the no-image error.
C21_FirstQualifyingPart ==
  (call.pc = "returned" /\ call.charged /\ response.kind = "response"
     /\ response.candidates # <<>>) =>
    LET parts == Flatten(response.candidates)
        good == {i \in 1..Len(parts) : Qualifies(parts[i])}
    IN IF good = {}
       THEN /\ ~call.result.ok
            /\ call.result.error = "Failed to generate image: No image generated in response"
            /\ outfile = NoFile
       ELSE LET first == CHOOSE i \in good : \A j \in good : i <= j
            IN /\ call.result.ok /\ call.result.path = "output_path"
               /\ outfile = [exists |-> TRUE, data |-> ImageBytes(parts[first])]

\* A call answered with an image part whose base64 text does not decode, in the
\* first candidate, and an image of 1001 bytes in the second: the second is written.
C21_Witness ==
  /\ call.pc = "returned" /\ call.result.ok
  /\ response = Response(<< <<InlinePart("image/png", Garbage(1004))>>,
                            <<TextPart, Img(MIN_IMAGE_BYTES + 1)>> >>)
  /\ outfile.data = Bytes(MIN_IMAGE_BYTES + 1, "A")

\* C22: once a web request that stored an uploaded input image has finished,
\* with the generation succeeded or failed, the stored file no longer exists:
\* for a task whose worker has ended, and for a request the web UI has answered.
C22_UploadRemoved ==
  /\ \A t \in TaskIds : wpc[t] \in {"done", "died"} => ~upload[t]
  /\ (call.pc = "returned" /\ call.entry = "app") => ~call.input_stored

\* C23: every invocation of the endpoint carries the model the request that
\* triggered it selected, and the request's cost is computed from the prices of
\* that model, also when requests selecting different models overlap on the
\* shared generator of the web UI.
C23_RequestModelUsed ==
  \A r \in ReqIds :
    /\ reqs[r].sent # None => reqs[r].sent = reqs[r].model
    /\ reqs[r].priced # None => reqs[r].priced = reqs[r].model
====
